---- MODULE Spec2Model ----
(***************************************************************************)
(* Model of src-tauri/src/lib.rs: the application bootstrap `run` and the  *)
(* command `open_player_window`.                                           *)
(*                                                                         *)
(* The command is an async command: every invocation is spawned on the     *)
(* async runtime, so invocations interleave with each other and with the   *)
(* window system between their await-free steps: the existence check       *)
(* (line 6), the creation request (lines 10-14) and the delivery of the    *)
(* result (lines 7 and 16).                                                *)
(***************************************************************************)
EXTENDS Bags, FiniteSets, Integers, Sequences, TLC

\* Number of invocation slots that may be in flight at the same time.
NumInvocations == 2

Invocations == 1..NumInvocations

VARIABLES
    app,        \* "building", "running" or "panicked": the state of run()
    plugins,    \* sequence of the plugins registered on the builder so far
    handlers,   \* set of command names in the dispatch table
    windows,    \* bag of the windows the runtime has open
    pc,         \* position of each invocation
    result,     \* the Result<(), String> of each invocation
    requests,   \* creation requests issued by the current invocation
    returns,    \* results delivered by the current invocation
    observed,   \* what the existence check of the current invocation saw
    closedSince,   \* an external close happened since the invocation began
    createdSince,  \* another invocation created a window since it began
    afterOk,    \* the invocation began after one returned Ok, no close since
    afterErr,   \* the invocation began after one had returned a failure
    afterClose  \* the invocation began after an external close

vars == <<app, plugins, handlers, windows, pc, result, requests, returns,
          observed, closedSince, createdSince, afterOk, afterErr,
          afterClose>>

boot == <<app, plugins, handlers>>

history == <<closedSince, createdSince, afterOk, afterErr, afterClose>>

----------------------------------------------------------------------------
\* Windows

\* The request with the title left out.
PlayerWindow_untitled ==
    [label |-> "player", url |-> "index.html",
     title |-> "", width |-> 1920, height |-> 1080]

\* The request with width and height swapped.
PlayerWindow_swapped ==
    [label |-> "player", url |-> "index.html",
     title |-> "VTT - Player View", width |-> 1080, height |-> 1920]

\* The window the command asks for (lines 10-12).
PlayerWindow ==
    [label |-> "player", url |-> "index.html",
     title |-> "VTT - Player View", width |-> 1920, height |-> 1080]

\* The window the context of line 26 opens at startup.  Its attributes come
\* from the application's configuration; the command only ever reads labels.
MainWindow ==
    [label |-> "main", url |-> "index.html",
     title |-> "main", width |-> 800, height |-> 600]

Labelled(ws, label) == {w \in BagToSet(ws) : w.label = label}

\* Number of open windows carrying the label.
CountLabel(ws, label) ==
    BagCardinality([w \in Labelled(ws, label) |-> ws[w]])

\* app.get_webview_window(label).is_some()
get_webview_window(ws, label) == Labelled(ws, label) # {}

\* Errors the window system can answer a creation request with.
PlatformErrors == {"CreateWebview", "CreateWindow"}

\* An error type whose Display text is empty.
to_string_empty(e) == ""

\* e.to_string(): the Display text of the error.
to_string(e) ==
    CASE e = "WebviewLabelAlreadyExists" ->
             "a webview with label player already exists"
      [] e = "CreateWebview" -> "failed to create webview"
      [] e = "CreateWindow" -> "failed to create window"

\* A build that registers the window without looking at the labels in use.
build_unchecked(ws, w) ==
    {[ok |-> TRUE, err |-> "None", windows |-> ws (+) SetToBag({w})]}
    \cup {[ok |-> FALSE, err |-> e, windows |-> ws] : e \in PlatformErrors}

\* WebviewWindowBuilder::build(): the outcomes of one creation request.  The
\* runtime refuses a label that is in use; otherwise the window system
\* either opens the window or refuses.
build(ws, w) ==
    IF get_webview_window(ws, w.label)
    THEN {[ok |-> FALSE, err |-> "WebviewLabelAlreadyExists", windows |-> ws]}
    ELSE {[ok |-> TRUE, err |-> "None", windows |-> ws (+) SetToBag({w})]}
         \cup {[ok |-> FALSE, err |-> e, windows |-> ws] : e \in PlatformErrors}

\* Result<(), String>
NoResult == [tag |-> "None", msg |-> ""]
Ok == [tag |-> "Ok", msg |-> ""]
Err(msg) == [tag |-> "Err", msg |-> msg]

----------------------------------------------------------------------------
\* run()

PluginOrder == <<"opener", "dialog", "fs">>

Init ==
    /\ app = "building"
    /\ plugins = <<>>
    /\ handlers = {}
    /\ windows = EmptyBag
    /\ pc = [i \in Invocations |-> "idle"]
    /\ result = [i \in Invocations |-> NoResult]
    /\ requests = [i \in Invocations |-> 0]
    /\ returns = [i \in Invocations |-> 0]
    /\ observed = [i \in Invocations |-> "None"]
    /\ closedSince = [i \in Invocations |-> FALSE]
    /\ createdSince = [i \in Invocations |-> FALSE]
    /\ afterOk = [i \in Invocations |-> FALSE]
    /\ afterErr = [i \in Invocations |-> FALSE]
    /\ afterClose = [i \in Invocations |-> FALSE]

\* .plugin(...) three times (lines 22-24)
plugin ==
    /\ app = "building"
    /\ Len(plugins) < Len(PluginOrder)
    /\ plugins' = Append(plugins, PluginOrder[Len(plugins) + 1])
    /\ UNCHANGED <<app, handlers, windows, pc, result, requests, returns,
                   observed, history>>

\* .invoke_handler(generate_handler![open_player_window]) (line 25)
invoke_handler ==
    /\ app = "building"
    /\ Len(plugins) = Len(PluginOrder)
    /\ handlers = {}
    /\ handlers' = {"open_player_window"}
    /\ UNCHANGED <<app, plugins, windows, pc, result, requests, returns,
                   observed, history>>

\* .run(context) starts the runtime and its event loop (line 26)
run_started ==
    /\ app = "building"
    /\ handlers # {}
    /\ app' = "running"
    /\ windows' = SetToBag({MainWindow})
    /\ UNCHANGED <<plugins, handlers, pc, result, requests, returns,
                   observed, history>>

\* .run(context) fails and .expect(...) panics (lines 26-27)
run_failed ==
    /\ app = "building"
    /\ handlers # {}
    /\ app' = "panicked"
    /\ UNCHANGED <<plugins, handlers, windows, pc, result, requests, returns,
                   observed, history>>

----------------------------------------------------------------------------
\* open_player_window

\* A dispatch that does not wait for the runtime to be started.
Invoke_early(i) ==
    /\ app # "panicked"
    /\ pc[i] \in {"idle", "done"}
    /\ pc' = [pc EXCEPT ![i] = "check"]
    /\ result' = [result EXCEPT ![i] = NoResult]
    /\ requests' = [requests EXCEPT ![i] = 0]
    /\ returns' = [returns EXCEPT ![i] = 0]
    /\ observed' = [observed EXCEPT ![i] = "None"]
    /\ closedSince' = [closedSince EXCEPT ![i] = FALSE]
    /\ createdSince' = [createdSince EXCEPT ![i] = FALSE]
    /\ afterOk' = [afterOk EXCEPT ![i] =
                     \E k \in Invocations :
                        /\ pc[k] = "done"
                        /\ result[k] = Ok
                        /\ ~closedSince[k]]
    /\ afterErr' = [afterErr EXCEPT ![i] =
                      \E k \in Invocations :
                         pc[k] = "done" /\ result[k].tag = "Err"]
    /\ afterClose' = [afterClose EXCEPT ![i] =
                        \E k \in Invocations : closedSince[k]]
    /\ UNCHANGED <<boot, windows>>

\* The front end invokes the command; the runtime spawns the handler.
Invoke(i) ==
    /\ app = "running"
    /\ "open_player_window" \in handlers
    /\ pc[i] \in {"idle", "done"}
    /\ pc' = [pc EXCEPT ![i] = "check"]
    /\ result' = [result EXCEPT ![i] = NoResult]
    /\ requests' = [requests EXCEPT ![i] = 0]
    /\ returns' = [returns EXCEPT ![i] = 0]
    /\ observed' = [observed EXCEPT ![i] = "None"]
    /\ closedSince' = [closedSince EXCEPT ![i] = FALSE]
    /\ createdSince' = [createdSince EXCEPT ![i] = FALSE]
    /\ afterOk' = [afterOk EXCEPT ![i] =
                     \E k \in Invocations :
                        /\ pc[k] = "done"
                        /\ result[k] = Ok
                        /\ ~closedSince[k]]
    /\ afterErr' = [afterErr EXCEPT ![i] =
                      \E k \in Invocations :
                         pc[k] = "done" /\ result[k].tag = "Err"]
    /\ afterClose' = [afterClose EXCEPT ![i] =
                        \E k \in Invocations : closedSince[k]]
    /\ UNCHANGED <<boot, windows>>

\* The handler without its guard: every invocation goes on to build.
Check_skipped(i) ==
    /\ pc[i] = "check"
    /\ observed' = [observed EXCEPT ![i] =
                       IF get_webview_window(windows, "player")
                       THEN "Present" ELSE "Absent"]
    /\ pc' = [pc EXCEPT ![i] = "build"]
    /\ UNCHANGED <<boot, windows, result, requests, returns, history>>

\* The guard inverted: is_none() in place of is_some().
Check_inverted(i) ==
    /\ pc[i] = "check"
    /\ IF get_webview_window(windows, "player")
       THEN /\ observed' = [observed EXCEPT ![i] = "Present"]
            /\ result' = result
            /\ pc' = [pc EXCEPT ![i] = "build"]
       ELSE /\ observed' = [observed EXCEPT ![i] = "Absent"]
            /\ result' = [result EXCEPT ![i] = Ok]
            /\ pc' = [pc EXCEPT ![i] = "return"]
    /\ UNCHANGED <<boot, windows, requests, returns, history>>

\* A handler that remembers having opened the window (a flag set on the
\* first success) and answers from the flag once the window is gone.
Check_remembering(i) ==
    /\ pc[i] = "check"
    /\ IF get_webview_window(windows, "player") \/ afterClose[i]
       THEN /\ observed' = [observed EXCEPT ![i] =
                              IF get_webview_window(windows, "player")
                              THEN "Present" ELSE "Absent"]
            /\ result' = [result EXCEPT ![i] = Ok]
            /\ pc' = [pc EXCEPT ![i] = "return"]
       ELSE /\ observed' = [observed EXCEPT ![i] = "Absent"]
            /\ result' = result
            /\ pc' = [pc EXCEPT ![i] = "build"]
    /\ UNCHANGED <<boot, windows, requests, returns, history>>

\* if app.get_webview_window("player").is_some() { return Ok(()) } (6-8)
Check(i) ==
    /\ pc[i] = "check"
    /\ IF get_webview_window(windows, "player")
       THEN /\ observed' = [observed EXCEPT ![i] = "Present"]
            /\ result' = [result EXCEPT ![i] = Ok]
            /\ pc' = [pc EXCEPT ![i] = "return"]
       ELSE /\ observed' = [observed EXCEPT ![i] = "Absent"]
            /\ result' = result
            /\ pc' = [pc EXCEPT ![i] = "build"]
    /\ UNCHANGED <<boot, windows, requests, returns, history>>

\* A build step that looks again and skips the request when the window is
\* there by now (create-if-absent).
Build_recheck(i) ==
    /\ pc[i] = "build"
    /\ IF get_webview_window(windows, "player")
       THEN /\ result' = [result EXCEPT ![i] = Ok]
            /\ UNCHANGED <<windows, requests, createdSince>>
       ELSE /\ \E out \in build(windows, PlayerWindow) :
                  /\ windows' = out.windows
                  /\ result' = [result EXCEPT ![i] =
                                  IF out.ok THEN Ok
                                  ELSE Err(to_string(out.err))]
                  /\ createdSince' =
                        [k \in Invocations |->
                            IF out.ok /\ k # i THEN TRUE ELSE createdSince[k]]
            /\ requests' = [requests EXCEPT ![i] = @ + 1]
    /\ pc' = [pc EXCEPT ![i] = "return"]
    /\ UNCHANGED <<boot, returns, observed, closedSince, afterOk, afterErr,
                   afterClose>>

\* A build step that closes the window it finds in its way when the request
\* is refused.
Build_destroying(i) ==
    /\ pc[i] = "build"
    /\ \E out \in build(windows, PlayerWindow) :
          /\ windows' = IF out.ok THEN out.windows
                        ELSE [w \in BagToSet(windows) \ Labelled(windows, "player")
                                 |-> windows[w]]
          /\ result' = [result EXCEPT ![i] =
                          IF out.ok THEN Ok ELSE Err(to_string(out.err))]
          /\ createdSince' =
                [k \in Invocations |->
                    IF out.ok /\ k # i THEN TRUE ELSE createdSince[k]]
    /\ requests' = [requests EXCEPT ![i] = @ + 1]
    /\ pc' = [pc EXCEPT ![i] = "return"]
    /\ UNCHANGED <<boot, returns, observed, closedSince, afterOk, afterErr,
                   afterClose>>

\* A build step that asks again when the request is refused.
Build_retry(i) ==
    /\ pc[i] = "build"
    /\ \E out \in build(windows, PlayerWindow) :
          /\ windows' = out.windows
          /\ result' = [result EXCEPT ![i] =
                          IF out.ok THEN Ok ELSE Err(to_string(out.err))]
          /\ createdSince' =
                [k \in Invocations |->
                    IF out.ok /\ k # i THEN TRUE ELSE createdSince[k]]
          /\ pc' = [pc EXCEPT ![i] = IF out.ok THEN "return" ELSE "build"]
    /\ requests' = [requests EXCEPT ![i] = @ + 1]
    /\ UNCHANGED <<boot, returns, observed, closedSince, afterOk, afterErr,
                   afterClose>>

\* A build step that waits for the label to become free instead of failing.
Build_blocking(i) ==
    /\ pc[i] = "build"
    /\ ~get_webview_window(windows, "player")
    /\ \E out \in build(windows, PlayerWindow) :
          /\ windows' = out.windows
          /\ result' = [result EXCEPT ![i] =
                          IF out.ok THEN Ok ELSE Err(to_string(out.err))]
          /\ createdSince' =
                [k \in Invocations |->
                    IF out.ok /\ k # i THEN TRUE ELSE createdSince[k]]
    /\ requests' = [requests EXCEPT ![i] = @ + 1]
    /\ pc' = [pc EXCEPT ![i] = "return"]
    /\ UNCHANGED <<boot, returns, observed, closedSince, afterOk, afterErr,
                   afterClose>>

\* WebviewWindowBuilder::new(..)...build().map_err(|e| e.to_string())? (10-16)
Build(i) ==
    /\ pc[i] = "build"
    /\ \E out \in build(windows, PlayerWindow) :
          /\ windows' = out.windows
          /\ result' = [result EXCEPT ![i] =
                          IF out.ok THEN Ok ELSE Err(to_string(out.err))]
          /\ createdSince' =
                [k \in Invocations |->
                    IF out.ok /\ k # i THEN TRUE ELSE createdSince[k]]
    /\ requests' = [requests EXCEPT ![i] = @ + 1]
    /\ pc' = [pc EXCEPT ![i] = "return"]
    /\ UNCHANGED <<boot, returns, observed, closedSince, afterOk, afterErr,
                   afterClose>>

\* A failure that unwinds the process, as .expect() would.
Return_fatal(i) ==
    /\ pc[i] = "return"
    /\ pc' = [pc EXCEPT ![i] = "done"]
    /\ returns' = [returns EXCEPT ![i] = @ + 1]
    /\ app' = IF result[i].tag = "Err" THEN "panicked" ELSE app
    /\ UNCHANGED <<plugins, handlers, windows, result, requests, observed,
                   history>>

\* The result reaches the caller.
Return(i) ==
    /\ pc[i] = "return"
    /\ pc' = [pc EXCEPT ![i] = "done"]
    /\ returns' = [returns EXCEPT ![i] = @ + 1]
    /\ UNCHANGED <<boot, windows, result, requests, observed, history>>

\* The user or the window system closes a player window.
Close ==
    /\ app = "running"
    /\ \E w \in Labelled(windows, "player") :
          windows' = windows (-) SetToBag({w})
    /\ closedSince' = [k \in Invocations |-> TRUE]
    /\ afterOk' = [k \in Invocations |-> FALSE]
    /\ UNCHANGED <<boot, pc, result, requests, returns, observed,
                   createdSince, afterErr, afterClose>>

Next ==
    \/ plugin
    \/ invoke_handler
    \/ run_started
    \/ run_failed
    \/ \E i \in Invocations : Invoke(i)
    \/ \E i \in Invocations : Check(i)
    \/ \E i \in Invocations : Build(i)
    \/ \E i \in Invocations : Return(i)
    \/ Close

Spec == Init /\ [][Next]_vars

\* The async runtime runs every spawned handler to completion: each step of
\* an invocation in flight is eventually taken.  Invocations and closes are
\* up to the front end and the user and carry no fairness.
Fairness ==
    \A i \in Invocations :
        WF_vars(Check(i)) /\ WF_vars(Build(i)) /\ WF_vars(Return(i))

FairSpec == Spec /\ Fairness

----------------------------------------------------------------------------
\* Properties

\* An invocation takes a step.
Steps(i) == pc'[i] # pc[i]

\* Invocation i delivers its result in this step.
Returning(i) == pc[i] = "return" /\ pc'[i] = "done"

\* Invocation i issues its creation request in this step.
Requesting(i) == pc[i] = "build" /\ requests'[i] = requests[i] + 1

\* A window titled "VTT - Player View", 1920x1080, showing index.html.
IsPlayerView(w) ==
    /\ w.title = "VTT - Player View"
    /\ w.width = 1920
    /\ w.height = 1080
    /\ w.url = "index.html"

PlayerViewOpen(ws) == \E w \in BagToSet(ws) : IsPlayerView(w)

\* Exactly one window is labelled "player" and it has the fixed configuration.
OnePlayerView(ws) ==
    /\ CountLabel(ws, "player") = 1
    /\ \A w \in Labelled(ws, "player") : IsPlayerView(w)

LabelExistsMsg == "a webview with label player already exists"

C2_Idempotent ==
    \A j \in Invocations :
        (pc[j] = "done" /\ afterOk[j]) =>
            /\ result[j] = Ok
            /\ requests[j] = 0
            /\ CountLabel(windows, "player") = 1

C2_Witness ==
    \E j \in Invocations :
        pc[j] = "done" /\ afterOk[j] /\ observed[j] = "Present"

\* C3 as stated: whenever an invocation returns success, the player view
\* window exists at the moment the success is returned.
C3_Original ==
    [][\A i \in Invocations :
          (Returning(i) /\ result[i] = Ok) => PlayerViewOpen(windows')]_vars

\* C3 as amended: whenever an invocation returns success and no external
\* close happened since it began, the player view window exists at the
\* moment the success is returned.
C3_SuccessMeansOpen ==
    [][\A i \in Invocations :
          (Returning(i) /\ result[i] = Ok /\ ~closedSince[i])
              => PlayerViewOpen(windows')]_vars

C3_Witness ==
    \E i \in Invocations :
        /\ pc[i] = "done" /\ result[i] = Ok /\ requests[i] = 1
        /\ ~closedSince[i]
        /\ PlayerViewOpen(windows)

\* C4 as stated: an invocation whose creation request fails returns a
\* failure with a non-empty description, and no window is registered under
\* "player" after it returns.
C4_Original ==
    [][\A i \in Invocations :
          (Returning(i) /\ result[i].tag = "Err") =>
              /\ result[i].msg # ""
              /\ ~get_webview_window(windows', "player")]_vars

\* C4 as amended: a failed creation request registers no window, the
\* invocation returns a failure with a non-empty description, and no window
\* is registered under "player" when it returns unless the creation request
\* of another invocation succeeded since it began.
C4_FailurePropagates ==
    [][\A i \in Invocations :
          /\ (Requesting(i) /\ result'[i] # Ok) =>
                /\ windows' = windows
                /\ result'[i].tag = "Err"
                /\ result'[i].msg # ""
          /\ (Returning(i) /\ result[i].tag = "Err") =>
                /\ requests[i] = 1
                /\ result'[i] = result[i]
                /\ result[i].msg # ""
                /\ (~createdSince[i] =>
                       ~get_webview_window(windows', "player"))]_vars

C4_Witness ==
    \E i \in Invocations :
        /\ pc[i] = "done" /\ result[i].tag = "Err"
        /\ ~createdSince[i]
        /\ ~get_webview_window(windows, "player")

\* C5: when the existence check sees no window and the creation request
\* succeeds, the request leaves exactly one window labelled "player", with
\* title "VTT - Player View", size 1920x1080 and content index.html, and the
\* invocation returns success.
C5_FirstSuccess ==
    [][\A i \in Invocations :
          /\ (Requesting(i) /\ windows' # windows) =>
                /\ observed[i] = "Absent"
                /\ OnePlayerView(windows')
                /\ result'[i] = Ok
          /\ (Returning(i) /\ requests[i] = 1 /\ result[i].tag # "Err") =>
                /\ result'[i] = Ok
                /\ (~closedSince[i] => OnePlayerView(windows'))]_vars

C5_Witness ==
    \E i \in Invocations :
        /\ pc[i] = "done" /\ observed[i] = "Absent" /\ requests[i] = 1
        /\ result[i] = Ok
        /\ OnePlayerView(windows)

\* C6: when the existence check finds a window labelled "player", the
\* invocation returns success, none of its steps changes the set of open
\* windows or the window, and it issues no creation request.
C6_PresentIsNoOp ==
    [][\A i \in Invocations :
          /\ (pc[i] = "check" /\ Steps(i)
                 /\ get_webview_window(windows, "player")) =>
                /\ observed'[i] = "Present"
                /\ result'[i] = Ok
          /\ (Steps(i) /\ observed'[i] = "Present") =>
                /\ windows' = windows
                /\ requests'[i] = 0
                /\ result'[i] = Ok]_vars

C6_Witness ==
    \E i \in Invocations :
        /\ pc[i] = "done" /\ observed[i] = "Present" /\ result[i] = Ok
        /\ OnePlayerView(windows)

\* C7: the existence check and the creation request are separate steps: the
\* check issues no request and changes no window, and an invocation that
\* saw no window issues its request whatever has happened since, so two
\* invocations can both see no window and both issue a request.
C7_CheckThenCreate ==
    [][\A i \in Invocations :
          /\ (pc[i] = "check" /\ Steps(i)) =>
                /\ windows' = windows
                /\ requests'[i] = 0
                /\ (observed'[i] = "Absent" => pc'[i] = "build")
          /\ (pc[i] = "build" /\ Steps(i)) =>
                requests'[i] = requests[i] + 1]_vars

\* Both saw no window before either asked; the second request was refused
\* because the first had registered the window.
C7_Witness ==
    \E i, j \in Invocations :
        /\ i # j
        /\ observed[i] = "Absent" /\ observed[j] = "Absent"
        /\ ~closedSince[i] /\ ~closedSince[j]
        /\ requests[i] = 1 /\ result[i] = Ok
        /\ requests[j] = 1 /\ result[j] = Err(LabelExistsMsg)

\* C8: no step of an invocation removes a window, and no step of an
\* invocation creates or changes a window labelled other than "player";
\* windows disappear only through external closes.
C8_OnlyCreates ==
    [][/\ (\E w \in BagToSet(windows) :
              CopiesIn(w, windows') < CopiesIn(w, windows)) =>
              /\ pc' = pc
              /\ requests' = requests
              /\ \A k \in Invocations : closedSince'[k]
       /\ (\E i \in Invocations : Steps(i)) =>
              \A w \in BagToSet(windows) \cup BagToSet(windows') :
                  w.label # "player" =>
                      CopiesIn(w, windows') = CopiesIn(w, windows)]_vars

C8_Witness ==
    \E i, j \in Invocations :
        /\ pc[i] = "done" /\ requests[i] = 1 /\ result[i] = Ok
        /\ pc[j] = "done" /\ result[j].tag = "Err"
        /\ ~closedSince[i] /\ ~closedSince[j]
        /\ CopiesIn(MainWindow, windows) = 1
        /\ CopiesIn(PlayerWindow, windows) = 1

\* C9: an invocation issues at most one creation request and delivers
\* exactly one result; after a failed request it only returns.
C9_SingleAttempt ==
    \A i \in Invocations :
        /\ requests[i] <= 1
        /\ returns[i] <= 1
        /\ (pc[i] = "done" <=> returns[i] = 1)
        /\ (pc[i] = "done" => result[i].tag \in {"Ok", "Err"})
        /\ (result[i].tag = "Err" =>
               requests[i] = 1 /\ pc[i] \in {"return", "done"})

C9_Witness ==
    \E i \in Invocations :
        /\ pc[i] = "done" /\ result[i].tag = "Err"
        /\ requests[i] = 1 /\ returns[i] = 1

\* C10: a failure is not fatal: once an invocation has returned a failure
\* the application is still running and accepts an invocation, and an
\* invocation begun after the failure that sees no window can have its
\* request granted, which registers the window and makes it return success.
C10_FailureNotFatal ==
    \A i \in Invocations :
        /\ (pc[i] = "done" /\ result[i].tag = "Err") =>
              /\ app = "running"
              /\ ENABLED Invoke(i)
        /\ (afterErr[i] /\ pc[i] = "build"
                /\ ~get_webview_window(windows, "player")) =>
              ENABLED (Build(i) /\ result'[i] = Ok
                          /\ OnePlayerView(windows'))
        /\ (afterErr[i] /\ pc[i] = "done" /\ requests[i] = 1
                /\ result[i].tag # "Err") => result[i] = Ok

C10_Witness ==
    \E i \in Invocations :
        /\ afterErr[i] /\ pc[i] = "done" /\ requests[i] = 1
        /\ result[i] = Ok
        /\ OnePlayerView(windows)

\* An invocation is between its dispatch and the delivery of its result.
InFlight(i) == pc[i] \in {"check", "build", "return"}

\* C11: the command runs only after run() has registered the three plugins
\* and the handler and the runtime has started; when the runtime fails to
\* start the process is over: no invocation has run or ever runs, and no
\* command result exists for the startup failure.
C11_DispatchAfterBootstrap ==
    /\ (\E i \in Invocations : pc[i] # "idle") =>
          /\ app = "running"
          /\ plugins = <<"opener", "dialog", "fs">>
          /\ "open_player_window" \in handlers
    /\ app = "panicked" =>
          /\ \A i \in Invocations :
                /\ pc[i] = "idle"
                /\ result[i].tag = "None"
                /\ returns[i] = 0
                /\ ~ENABLED Invoke(i)
          /\ windows = EmptyBag
          /\ ~ENABLED Next
    /\ app = "building" => \A i \in Invocations : ~ENABLED Invoke(i)

C11_Witness ==
    \E i \in Invocations :
        /\ pc[i] = "done" /\ returns[i] = 1
        /\ app = "running"
        /\ Len(plugins) = 3 /\ handlers # {}

\* C12: the command keeps no memory: an invocation begun after an external
\* close whose check finds no window goes on to issue a creation request,
\* and when that is granted exactly one window labelled "player" with the
\* fixed configuration exists again and the invocation returns success.
C12_NoMemory ==
    [][\A i \in Invocations :
          afterClose[i] =>
              /\ (pc[i] = "check" /\ Steps(i)
                     /\ ~get_webview_window(windows, "player")) =>
                    /\ pc'[i] = "build"
                    /\ result'[i].tag = "None"
              /\ (pc[i] = "build" /\ Steps(i)) =>
                    /\ Requesting(i)
                    /\ (windows' # windows =>
                           /\ OnePlayerView(windows')
                           /\ result'[i] = Ok)
              /\ (Returning(i) /\ requests[i] = 1 /\ ~closedSince[i]
                     /\ result[i] = Ok) => OnePlayerView(windows')]_vars

C12_Witness ==
    \E i \in Invocations :
        /\ afterClose[i] /\ ~closedSince[i]
        /\ pc[i] = "done" /\ observed[i] = "Absent" /\ requests[i] = 1
        /\ result[i] = Ok
        /\ OnePlayerView(windows)

\* C13: under fair scheduling every invocation that was started eventually
\* returns a result, whatever other invocations and external closes do, and
\* the next step of an invocation in flight is always enabled: it waits on
\* no other invocation.
C13_Terminates ==
    /\ \A i \in Invocations :
          InFlight(i) ~> (pc[i] = "done" /\ result[i].tag \in {"Ok", "Err"})
    /\ [](\A i \in Invocations :
             InFlight(i) => ENABLED (Check(i) \/ Build(i) \/ Return(i)))

\* One invocation has returned while another, which saw no window before the
\* first created it, is still ahead of its request.
C13_Witness ==
    \E i, j \in Invocations :
        /\ i # j
        /\ pc[i] = "done" /\ result[i] = Ok /\ requests[i] = 1
        /\ pc[j] = "build" /\ createdSince[j]
        /\ get_webview_window(windows, "player")

----------------------------------------------------------------------------
TypeOK ==
    /\ app \in {"building", "running", "panicked"}
    /\ pc \in [Invocations -> {"idle", "check", "build", "return", "done"}]
    /\ requests \in [Invocations -> 0..1]
    /\ returns \in [Invocations -> 0..1]

====
